---- MODULE Spec2Model ----
(***************************************************************************)
(* Replication strategies of the ring (internal/cortex/ring/               *)
(* replication_strategy.go): the quorum strategy                           *)
(* (defaultReplicationStrategy), the best-effort strategy                  *)
(* (ignoreUnhealthyInstancesReplicationStrategy) and Ring.InstancesCount.  *)
(*                                                                         *)
(* A Go slice is modelled as its backing array (a sequence) plus a length: *)
(* Filter receives the caller's slice by value, so it shares the caller's  *)
(* backing array while its own length shrinks.                             *)
(***************************************************************************)
EXTENDS Integers, Sequences, FiniteSets, TLC

VARIABLES
    buf,        \* backing array of the caller's candidate list ([]InstanceDesc)
    clock,      \* the wall clock read by time.Now()
    cfg,        \* installed strategy and ring configuration passed to Filter
    last,       \* record of the most recent completed Filter call, or NoCall
    prev,       \* record of the completed Filter call before it, or NoCall
    orig,       \* the candidate list as the goroutines of SpecConc first got it
    gor,        \* per goroutine: position and locals of a running Filter call
    mtx,        \* Ring.mtx (sync.RWMutex): [readers, writer]
    ingesters,  \* r.ringDesc.Ingesters, as the set of member ids
    rd,         \* per reader thread: position and locals in InstancesCount
    wr          \* the membership mutator: position and pending change

vars == <<buf, clock, cfg, last, prev, orig, gor, mtx, ingesters, rd, wr>>

filterVars == <<buf, clock, cfg, last, prev, orig, gor>>
ringVars == <<mtx, ingesters, rd, wr>>

----------------------------------------------------------------------------
(* Bounds *)

MaxInst == 3        \* longest candidate list
MaxRF == 3          \* largest configured replication factor
MaxNow == 1         \* last instant of the clock
MaxTs == 0          \* latest heartbeat timestamp of a candidate
MaxTimeout == 0     \* largest heartbeat timeout
MaxMembers == 2     \* most instances the ring ever holds

----------------------------------------------------------------------------
(* Instance records, operations and the health predicate *)

States == {"ACTIVE", "LEAVING"}

Operations == {"Read", "Write"}

AddrOf(k) == "i" \o ToString(k)

InstanceDesc == [Addr : {AddrOf(k) : k \in 1..MaxInst},
                 Timestamp : 0..MaxTs,
                 State : States]

\* Lifecycle state against operation kind: a leaving instance still serves
\* reads but takes no new writes.
IsInstanceInStateHealthy(op, state) ==
    \/ state = "ACTIVE"
    \/ state = "LEAVING" /\ op = "Read"

\* InstanceDesc.IsHealthy(op, heartbeatTimeout, now)
IsHealthy(inst, op, heartbeatTimeout, now) ==
    /\ IsInstanceInStateHealthy(op, inst.State)
    /\ ~(now - inst.Timestamp > heartbeatTimeout)

\* The candidate lists a ring lookup hands out: distinct instances, the
\* k-th one at address AddrOf(k); the list may be empty.
CandidateLists ==
    UNION {{l \in [1..n -> InstanceDesc] : \A k \in 1..n : l[k].Addr = AddrOf(k)}
           : n \in 0..MaxInst}

Nil == "<nil>"

----------------------------------------------------------------------------
(* The filtering loop shared by both strategies *)

\* append(instances[:i], instances[i+1:]...) on a slice of length len over
\* the array arr: the elements after position i move down by one inside
\* the same array; the slot at position len keeps its old value.
RemoveAt_ShiftFromBefore(arr, len, i) ==
    [k \in 1..Len(arr) |->
        IF k >= i - 1 /\ k < len /\ k >= 1 THEN arr[k + 1] ELSE arr[k]]

RemoveAt_ZeroesTail(arr, len, i) ==
    [k \in 1..Len(arr) |->
        IF k >= i /\ k < len THEN arr[k + 1]
        ELSE IF k = len THEN [Addr |-> "", Timestamp |-> 0, State |-> "ACTIVE"]
        ELSE arr[k]]

RemoveAt(arr, len, i) ==
    [k \in 1..Len(arr) |->
        IF k >= i /\ k < len THEN arr[k + 1] ELSE arr[k]]

\* Locals of a call when the loop starts: instances (arr, len), i, unhealthy.
\* Positions are 1-based: Go's i is st.i - 1.
LoopStart(arr) ==
    [arr |-> arr, len |-> Len(arr), i |-> 1, unhealthy |-> <<>>]

\* One iteration of `for i := 0; i < len(instances); { ... }`
LoopStep_AddrAfterRemove(st, op, heartbeatTimeout, now) ==
    IF IsHealthy(st.arr[st.i], op, heartbeatTimeout, now)
    THEN [st EXCEPT !.i = @ + 1]
    ELSE [st EXCEPT !.unhealthy =
                        Append(@, RemoveAt(st.arr, st.len, st.i)[st.i].Addr),
                    !.arr = RemoveAt(st.arr, st.len, st.i),
                    !.len = @ - 1]

LoopStep_AdvanceAfterRemove(st, op, heartbeatTimeout, now) ==
    IF IsHealthy(st.arr[st.i], op, heartbeatTimeout, now)
    THEN [st EXCEPT !.i = @ + 1]
    ELSE [st EXCEPT !.unhealthy = Append(@, st.arr[st.i].Addr),
                    !.arr = RemoveAt(st.arr, st.len, st.i),
                    !.len = @ - 1,
                    !.i = @ + 1]

LoopStep(st, op, heartbeatTimeout, now) ==
    IF IsHealthy(st.arr[st.i], op, heartbeatTimeout, now)
    THEN [st EXCEPT !.i = @ + 1]
    ELSE [st EXCEPT !.unhealthy = Append(@, st.arr[st.i].Addr),
                    !.arr = RemoveAt(st.arr, st.len, st.i),
                    !.len = @ - 1]

LoopDone(st) == ~(st.i <= st.len)

RECURSIVE FilterLoop(_, _, _, _)
FilterLoop(st, op, heartbeatTimeout, now) ==
    IF LoopDone(st)
    THEN st
    ELSE FilterLoop(LoopStep(st, op, heartbeatTimeout, now), op, heartbeatTimeout, now)

\* strings.Join(elems, sep)
RECURSIVE Join(_, _)
Join(elems, sep) ==
    IF Len(elems) = 0 THEN ""
    ELSE IF Len(elems) = 1 THEN elems[1]
    ELSE elems[1] \o sep \o Join(Tail(elems), sep)

\* the unhealthyStr of both strategies
UnhealthyStr(unhealthy) ==
    IF Len(unhealthy) > 0
    THEN " - unhealthy instances: " \o Join(unhealthy, ",")
    ELSE ""

----------------------------------------------------------------------------
(* defaultReplicationStrategy.Filter, after its loop *)

MinSuccess_ConfiguredOnly(n, replicationFactor) ==
    (replicationFactor \div 2) + 1

MinSuccess(n, replicationFactor) ==
    LET rf == IF n > replicationFactor THEN n ELSE replicationFactor
    IN  (rf \div 2) + 1

DefaultReturn_PartialOnError(st, replicationFactor, zoneAwarenessEnabled) ==
    LET n == st.len
        minSuccess == MinSuccess(n, replicationFactor)
    IN  IF n < minSuccess
        THEN [healthy |-> SubSeq(st.arr, 1, n), maxFailures |-> 0,
              err |-> "at least " \o ToString(minSuccess)
                      \o " live replicas required, could only find "
                      \o ToString(n) \o UnhealthyStr(st.unhealthy)]
        ELSE [healthy |-> SubSeq(st.arr, 1, n),
              maxFailures |-> n - minSuccess,
              err |-> Nil]

DefaultReturn_TrimsToFactor(st, replicationFactor, zoneAwarenessEnabled) ==
    LET n == st.len
        minSuccess == MinSuccess(n, replicationFactor)
        keep == IF n > replicationFactor THEN replicationFactor ELSE n
    IN  IF n < minSuccess
        THEN [healthy |-> <<>>, maxFailures |-> 0, err |-> "too few"]
        ELSE [healthy |-> SubSeq(st.arr, 1, keep),
              maxFailures |-> n - minSuccess,
              err |-> Nil]

DefaultReturn(st, replicationFactor, zoneAwarenessEnabled) ==
    LET n == st.len
        minSuccess == MinSuccess(n, replicationFactor)
    IN  IF n < minSuccess
        THEN [healthy |-> <<>>,
              maxFailures |-> 0,
              err |-> IF zoneAwarenessEnabled
                      THEN "at least " \o ToString(minSuccess)
                           \o " live replicas required across different availability zones, could only find "
                           \o ToString(n) \o UnhealthyStr(st.unhealthy)
                      ELSE "at least " \o ToString(minSuccess)
                           \o " live replicas required, could only find "
                           \o ToString(n) \o UnhealthyStr(st.unhealthy)]
        ELSE [healthy |-> SubSeq(st.arr, 1, n),
              maxFailures |-> n - minSuccess,
              err |-> Nil]

(* ignoreUnhealthyInstancesReplicationStrategy.Filter, after its loop *)

IgnoreReturn_UsesQuorum(st, replicationFactor, zoneAwarenessEnabled) ==
    DefaultReturn(st, replicationFactor, zoneAwarenessEnabled)

IgnoreReturn(st, replicationFactor, zoneAwarenessEnabled) ==
    IF st.len = 0
    THEN [healthy |-> <<>>,
          maxFailures |-> 0,
          err |-> "at least 1 healthy replica required, could only find 0"
                  \o UnhealthyStr(st.unhealthy)]
    ELSE [healthy |-> SubSeq(st.arr, 1, st.len),
          maxFailures |-> st.len - 1,
          err |-> Nil]

Return(strategy, st, replicationFactor, zoneAwarenessEnabled) ==
    IF strategy = "default"
    THEN DefaultReturn(st, replicationFactor, zoneAwarenessEnabled)
    ELSE IgnoreReturn(st, replicationFactor, zoneAwarenessEnabled)

----------------------------------------------------------------------------
(* Sequential callers: one goroutine calling Filter on the list it holds *)

Config == [strategy : {"default", "ignore"},
           replicationFactor : 1..MaxRF,
           heartbeatTimeout : 0..MaxTimeout,
           zoneAwarenessEnabled : BOOLEAN]

NoResult == [healthy |-> <<>>, maxFailures |-> 0, err |-> Nil]

NoCall == [valid |-> FALSE, in |-> <<>>, op |-> "Read", now |-> 0,
           out |-> NoResult, after |-> <<>>]

IdleGor == [pc |-> "idle", op |-> "Read", now |-> 0,
            len |-> 0, i |-> 1, unhealthy |-> <<>>, out |-> NoResult,
            overlapped |-> FALSE]

Goroutines == {"g1", "g2"}

Threads == {"t1", "t2"}

IdleReader == [pc |-> "idle", c |-> 0, seen |-> {}]

IdleWriter == [pc |-> "idle", from |-> {}, to |-> {}]

FilterIdle ==
    /\ orig = <<>>
    /\ gor = [g \in Goroutines |-> IdleGor]

RingIdle ==
    /\ mtx = [readers |-> {}, writer |-> FALSE]
    /\ ingesters = {}
    /\ rd = [t \in Threads |-> IdleReader]
    /\ wr = IdleWriter

Init ==
    /\ buf \in CandidateLists
    /\ clock = 0
    /\ cfg \in Config
    /\ last = NoCall
    /\ prev = NoCall
    /\ FilterIdle
    /\ RingIdle

\* time passes between calls
Tick ==
    /\ clock < MaxNow
    /\ clock' = clock + 1
    /\ UNCHANGED <<buf, cfg, last, prev, orig, gor>>
    /\ UNCHANGED ringVars

\* A whole call of the installed strategy's Filter on the caller's list:
\* now := time.Now(), the loop, the return. The loop writes through to the
\* caller's backing array.
Filter(op) ==
    LET now == clock
        st == FilterLoop(LoopStart(buf), op, cfg.heartbeatTimeout, now)
        out == Return(cfg.strategy, st, cfg.replicationFactor,
                      cfg.zoneAwarenessEnabled)
    IN  /\ buf' = st.arr
        /\ prev' = last
        /\ last' = [valid |-> TRUE, in |-> buf, op |-> op, now |-> now,
                    out |-> out, after |-> st.arr]
        /\ UNCHANGED <<clock, cfg, orig, gor>>
        /\ UNCHANGED ringVars

Next ==
    \/ Tick
    \/ \E op \in Operations : Filter(op)

Spec == Init /\ [][Next]_vars

----------------------------------------------------------------------------
(* Concurrent callers: the goroutines call Filter on one shared candidate  *)
(* list, each with its own slice header (len) over the same backing array. *)
(* One loop iteration is one step; the goroutines' iterations interleave.  *)
(* The calls race on the array only when one of them removes an instance:  *)
(* stepping by whole iterations yields some of the outcomes of that race,  *)
(* and all of them when no call writes.                                    *)

\* The shared list holds candidates that all heartbeated in the latest
\* round, and the ring runs with the longest timeout: the calls' views of
\* health then differ by operation kind and by the instant they read.
InitConc ==
    /\ buf \in {l \in CandidateLists : \A k \in 1..Len(l) : l[k].Timestamp = MaxTs}
    /\ orig = buf
    /\ clock = 0
    /\ cfg \in {c \in Config : c.heartbeatTimeout = MaxTimeout}
    /\ last = NoCall
    /\ prev = NoCall
    /\ gor = [g \in Goroutines |-> IdleGor]
    /\ RingIdle

Locals(g) ==
    [arr |-> buf, len |-> gor[g].len, i |-> gor[g].i,
     unhealthy |-> gor[g].unhealthy]

\* entry of Filter: the slice header is copied, now := time.Now()
ConcEnter(g, op) ==
    /\ gor[g].pc = "idle"
    /\ LET running == {o \in Goroutines : gor[o].pc = "loop"}
           st == LoopStart(buf)
       IN  gor' = [o \in Goroutines |->
                    IF o = g
                    THEN [gor[g] EXCEPT !.pc = "loop", !.op = op, !.now = clock,
                                        !.len = st.len, !.i = st.i,
                                        !.unhealthy = st.unhealthy,
                                        !.overlapped = running # {}]
                    ELSE IF o \in running
                    THEN [gor[o] EXCEPT !.overlapped = TRUE]
                    ELSE gor[o]]
    /\ UNCHANGED <<buf, clock, cfg, last, prev, orig>>
    /\ UNCHANGED ringVars

\* one iteration of the filtering loop, on the array as it is now
ConcIterate(g) ==
    /\ gor[g].pc = "loop"
    /\ ~LoopDone(Locals(g))
    /\ LET st == LoopStep(Locals(g), gor[g].op, cfg.heartbeatTimeout, gor[g].now)
       IN  /\ buf' = st.arr
           /\ gor' = [gor EXCEPT ![g].len = st.len, ![g].i = st.i,
                                 ![g].unhealthy = st.unhealthy]
    /\ UNCHANGED <<clock, cfg, last, prev, orig>>
    /\ UNCHANGED ringVars

\* the code after the loop, up to the return
ConcReturn(g) ==
    /\ gor[g].pc = "loop"
    /\ LoopDone(Locals(g))
    /\ gor' = [gor EXCEPT ![g].pc = "done",
                          ![g].out = Return(cfg.strategy, Locals(g),
                                            cfg.replicationFactor,
                                            cfg.zoneAwarenessEnabled)]
    /\ UNCHANGED <<buf, clock, cfg, last, prev, orig>>
    /\ UNCHANGED ringVars

NextConc ==
    \/ Tick
    \/ \E g \in Goroutines : \E op \in Operations : ConcEnter(g, op)
    \/ \E g \in Goroutines : ConcIterate(g)
    \/ \E g \in Goroutines : ConcReturn(g)

SpecConc == InitConc /\ [][NextConc]_vars

----------------------------------------------------------------------------
(* The ring: InstancesCount against membership mutation *)

Members == 1..MaxMembers

\* sync.RWMutex: RLock waits while a writer holds the mutex
CanRLock_NoWait(m) == TRUE

CanRLock(m) == ~m.writer

AfterRLock(m, t) == [m EXCEPT !.readers = @ \cup {t}]

\* RUnlock gives the read lock back
AfterRUnlock_StillHeld(m, t) == m

AfterRUnlock(m, t) == [m EXCEPT !.readers = @ \ {t}]

\* Lock waits for the readers and for any other writer
CanLock(m) == ~m.writer /\ m.readers = {}

\* the membership as of the last complete mutation
Committed == IF wr.pc = "idle" THEN ingesters ELSE wr.from

InitRing ==
    /\ buf = <<>>
    /\ clock = 0
    /\ cfg = [strategy |-> "default", replicationFactor |-> 1,
              heartbeatTimeout |-> 0, zoneAwarenessEnabled |-> FALSE]
    /\ last = NoCall
    /\ prev = NoCall
    /\ FilterIdle
    /\ mtx = [readers |-> {}, writer |-> FALSE]
    /\ ingesters \in SUBSET Members
    /\ rd = [t \in Threads |-> IdleReader]
    /\ wr = IdleWriter

\* a thread calls r.InstancesCount()
CountCall(t) ==
    /\ rd[t].pc \in {"idle", "returned"}
    /\ rd' = [rd EXCEPT ![t] = [pc |-> "called", c |-> 0,
                                seen |-> {Cardinality(Committed)}]]
    /\ UNCHANGED <<mtx, ingesters, wr>>
    /\ UNCHANGED filterVars

\* r.mtx.RLock()
CountRLock(t) ==
    /\ rd[t].pc = "called"
    /\ CanRLock(mtx)
    /\ mtx' = AfterRLock(mtx, t)
    /\ rd' = [rd EXCEPT ![t].pc = "locked"]
    /\ UNCHANGED <<ingesters, wr>>
    /\ UNCHANGED filterVars

\* c := len(r.ringDesc.Ingesters)
CountRead(t) ==
    /\ rd[t].pc = "locked"
    /\ rd' = [rd EXCEPT ![t].pc = "read", ![t].c = Cardinality(ingesters)]
    /\ UNCHANGED <<mtx, ingesters, wr>>
    /\ UNCHANGED filterVars

\* r.mtx.RUnlock()
CountRUnlock(t) ==
    /\ rd[t].pc = "read"
    /\ mtx' = AfterRUnlock(mtx, t)
    /\ rd' = [rd EXCEPT ![t].pc = "unlocked"]
    /\ UNCHANGED <<ingesters, wr>>
    /\ UNCHANGED filterVars

\* return c
CountReturn(t) ==
    /\ rd[t].pc = "unlocked"
    /\ rd' = [rd EXCEPT ![t].pc = "returned"]
    /\ UNCHANGED <<mtx, ingesters, wr>>
    /\ UNCHANGED filterVars

\* The membership subsystem takes the write lock to bring the membership
\* to a new set of instances.
MutateLock(to) ==
    /\ wr.pc = "idle"
    /\ to # ingesters
    /\ CanLock(mtx)
    /\ mtx' = [mtx EXCEPT !.writer = TRUE]
    /\ wr' = [pc |-> "writing", from |-> ingesters, to |-> to]
    /\ UNCHANGED <<ingesters, rd>>
    /\ UNCHANGED filterVars

\* ... it writes the instance records one at a time ...
MutateOne(m) ==
    /\ wr.pc = "writing"
    /\ \/ m \in wr.to \ ingesters /\ ingesters' = ingesters \cup {m}
       \/ m \in ingesters \ wr.to /\ ingesters' = ingesters \ {m}
    /\ UNCHANGED <<mtx, rd, wr>>
    /\ UNCHANGED filterVars

\* ... and releases the write lock when the new membership is complete.
MutateUnlock ==
    /\ wr.pc = "writing"
    /\ ingesters = wr.to
    /\ mtx' = [mtx EXCEPT !.writer = FALSE]
    /\ wr' = IdleWriter
    /\ rd' = [t \in Threads |->
                IF rd[t].pc \in {"called", "locked", "read", "unlocked"}
                THEN [rd[t] EXCEPT !.seen = @ \cup {Cardinality(ingesters)}]
                ELSE rd[t]]
    /\ UNCHANGED ingesters
    /\ UNCHANGED filterVars

NextRing ==
    \/ \E t \in Threads : CountCall(t)
    \/ \E t \in Threads : CountRLock(t)
    \/ \E t \in Threads : CountRead(t)
    \/ \E t \in Threads : CountRUnlock(t)
    \/ \E t \in Threads : CountReturn(t)
    \/ \E to \in SUBSET Members : MutateLock(to)
    \/ \E m \in Members : MutateOne(m)
    \/ MutateUnlock

SpecRing == InitRing /\ [][NextRing]_vars

----------------------------------------------------------------------------
(* What the claims measure a completed call against: the candidates of     *)
(* its input list that pass the health predicate at the call's instant     *)

Healthy(call, x) == IsHealthy(x, call.op, cfg.heartbeatTimeout, call.now)

HealthySub(call) ==
    LET Test(x) == Healthy(call, x) IN SelectSeq(call.in, Test)

UnhealthySub(call) ==
    LET Test(x) == ~Healthy(call, x) IN SelectSeq(call.in, Test)

HealthyCount(call) == Len(HealthySub(call))

Max(a, b) == IF a >= b THEN a ELSE b

Majority(call) == (Max(cfg.replicationFactor, HealthyCount(call)) \div 2) + 1

Succeeded(call) == call.valid /\ call.out.err = Nil

Failed(call) == call.valid /\ call.out.err # Nil

\* no candidate that fails the health predicate sits before one that passes
UnhealthyLast(call) ==
    \A j, k \in 1..Len(call.in) :
        j < k => ~(~Healthy(call, call.in[j]) /\ Healthy(call, call.in[k]))

\* every candidate but possibly the last one passes the health predicate
OnlyLastMayFail(call) ==
    \A k \in 1..(Len(call.in) - 1) : Healthy(call, call.in[k])

RECURSIVE CommaList(_)
CommaList(bad) ==
    IF Len(bad) = 0 THEN ""
    ELSE IF Len(bad) = 1 THEN bad[1].Addr
    ELSE CommaList(SubSeq(bad, 1, Len(bad) - 1)) \o "," \o bad[Len(bad)].Addr

Listing(call) ==
    IF UnhealthySub(call) = <<>> THEN ""
    ELSE " - unhealthy instances: " \o CommaList(UnhealthySub(call))

ElementsOf(seq) == {seq[k] : k \in 1..Len(seq)}

----------------------------------------------------------------------------
(* Claims about single and successive calls, checked under Spec *)

\* C1 (as claimed): two successful calls of the quorum strategy on the same
\* candidate list with the same replication factor: every set of minSuccess
\* instances of the first call's healthy subset meets every set of
\* minSuccess instances of the second call's healthy subset, where
\* minSuccess = len(healthy) - maxFailures of the respective call.
C1_QuorumsIntersect ==
    (/\ cfg.strategy = "default"
     /\ Succeeded(prev) /\ Succeeded(last)
     /\ prev.in = last.in)
    => \A S1 \in SUBSET ElementsOf(prev.out.healthy) :
       \A S2 \in SUBSET ElementsOf(last.out.healthy) :
          (/\ Cardinality(S1) = Len(prev.out.healthy) - prev.out.maxFailures
           /\ Cardinality(S2) = Len(last.out.healthy) - last.out.maxFailures)
          => S1 \cap S2 # {}

\* C2: quorum strategy, h healthy candidates, minSuccess =
\* floor(max(RF, h)/2) + 1: whenever h >= minSuccess the call returns no
\* error and maxFailures = h - minSuccess >= 0; whenever h > RF the threshold
\* is computed from h and the call succeeds.
C2_QuorumSucceeds ==
    (last.valid /\ cfg.strategy = "default") =>
        LET h == HealthyCount(last) IN
        /\ h >= Majority(last) =>
              /\ last.out.err = Nil
              /\ last.out.maxFailures = h - Majority(last)
              /\ last.out.maxFailures >= 0
        /\ h > cfg.replicationFactor =>
              /\ last.out.err = Nil
              /\ last.out.maxFailures = h - ((h \div 2) + 1)

C2_Witness ==
    /\ last.valid /\ cfg.strategy = "default"
    /\ HealthyCount(last) > cfg.replicationFactor
    /\ Len(last.in) > HealthyCount(last)
    /\ last.out.err = Nil
    /\ last.out.maxFailures = 0

\* C3: quorum strategy, fewer healthy candidates than minSuccess: the call
\* returns an error, an empty instance list and maxFailures 0; an error never
\* comes with a non-empty healthy subset.
C3_QuorumFailsEmpty ==
    (last.valid /\ cfg.strategy = "default") =>
        /\ HealthyCount(last) < Majority(last) =>
              /\ last.out.err # Nil
              /\ last.out.healthy = <<>>
              /\ last.out.maxFailures = 0
        /\ last.out.err # Nil => last.out.healthy = <<>>

C3_Witness ==
    /\ last.valid /\ cfg.strategy = "default"
    /\ HealthyCount(last) >= 1
    /\ HealthyCount(last) < Majority(last)
    /\ last.out.err # Nil
    /\ last.out.healthy = <<>>

\* C4: on success (either strategy) the returned healthy subset is exactly
\* the sub-sequence of the input list made of the instances that pass the
\* health predicate, in input order.
C4_HealthySubsequence ==
    Succeeded(last) => last.out.healthy = HealthySub(last)

C4_Witness ==
    /\ Succeeded(last)
    /\ ~UnhealthyLast(last)
    /\ Len(last.out.healthy) >= 2
    /\ last.out.healthy = HealthySub(last)

\* C5: the best-effort strategy fails if and only if no candidate is
\* healthy; with at least one healthy candidate it returns all healthy
\* instances and maxFailures = healthyCount - 1, whatever the replication
\* factor and the zone-awareness flag.
C5_BestEffort ==
    (last.valid /\ cfg.strategy = "ignore") =>
        /\ last.out.err # Nil <=> HealthyCount(last) = 0
        /\ HealthyCount(last) >= 1 =>
              /\ last.out.healthy = HealthySub(last)
              /\ last.out.maxFailures = HealthyCount(last) - 1

C5_Witness ==
    /\ last.valid /\ cfg.strategy = "ignore"
    /\ HealthyCount(last) >= 1
    /\ HealthyCount(last) < Majority(last)
    /\ cfg.zoneAwarenessEnabled
    /\ last.out.err = Nil
    /\ last.out.maxFailures = HealthyCount(last) - 1

\* C6 (as claimed): two successive calls on the list the caller holds, with
\* the same operation kind and the same instant, return identical results.
C6_RepeatSameResult ==
    (/\ prev.valid /\ last.valid
     /\ last.op = prev.op
     /\ last.now = prev.now)
    => last.out = prev.out

\* C6 (amended): two successive calls on the list the caller holds, with the
\* same operation kind and the same clock reading, return identical results
\* provided every candidate of the first call, except possibly the last one
\* of the list, passed the health predicate (so the first call moved nothing
\* in the list).
C6_RepeatSameResultIfNothingMoved ==
    (/\ prev.valid /\ last.valid
     /\ last.op = prev.op
     /\ last.now = prev.now
     /\ OnlyLastMayFail(prev))
    => last.out = prev.out

C6_Witness ==
    /\ prev.valid /\ last.valid
    /\ last.op = prev.op
    /\ last.now = prev.now
    /\ OnlyLastMayFail(prev)
    /\ UnhealthySub(prev) # <<>>
    /\ HealthySub(prev) # <<>>
    /\ Failed(last)
    /\ last.out = prev.out

\* C7: a failed call's error reports exactly the addresses of the candidates
\* that failed the health predicate, each once and in input order (nothing
\* when none was filtered): for the quorum strategy after minSuccess and the
\* healthy count, for the best-effort strategy the addresses of all
\* candidates.
C7_ErrorReport ==
    Failed(last) =>
        IF cfg.strategy = "default"
        THEN last.out.err =
                "at least " \o ToString(Majority(last)) \o " live replicas required"
                \o (IF cfg.zoneAwarenessEnabled
                    THEN " across different availability zones" ELSE "")
                \o ", could only find " \o ToString(HealthyCount(last))
                \o Listing(last)
        ELSE /\ UnhealthySub(last) = last.in
             /\ last.out.err =
                   "at least 1 healthy replica required, could only find 0"
                   \o Listing(last)

C7_Witness ==
    /\ Failed(last)
    /\ Len(UnhealthySub(last)) >= 2
    /\ HealthyCount(last) >= 1
    /\ ~UnhealthyLast(last)

\* C8 (as claimed): after any call every position of the caller's list holds
\* the same instance as before the call.
C8_InputUnchanged ==
    last.valid => last.after = last.in

\* C8 (amended): Filter filters in place. After any call the caller's list
\* has its length unchanged, its first h positions hold the h healthy
\* instances in input order, and every position before the first unhealthy
\* candidate and the last position hold the same instance as before; the
\* list as a whole is unchanged when every candidate except possibly the last
\* one is healthy.
C8_InputOverwrittenInPlace ==
    last.valid =>
        /\ Len(last.after) = Len(last.in)
        /\ SubSeq(last.after, 1, HealthyCount(last)) = HealthySub(last)
        /\ \A k \in 1..Len(last.in) :
              (\A j \in 1..k : Healthy(last, last.in[j]))
              => last.after[k] = last.in[k]
        /\ last.in # <<>> => last.after[Len(last.in)] = last.in[Len(last.in)]
        /\ OnlyLastMayFail(last) => last.after = last.in

C8_Witness ==
    /\ last.valid
    /\ ~UnhealthyLast(last)
    /\ last.after # last.in
    /\ Healthy(last, last.in[1])

----------------------------------------------------------------------------
(* Claims about concurrent calls, checked under SpecConc *)

\* the call of goroutine g as if made alone on the original list
AloneCall(g) ==
    [valid |-> TRUE, in |-> orig, op |-> gor[g].op, now |-> gor[g].now,
     out |-> gor[g].out, after |-> buf]

\* g returned what a call alone on the original list returns: the healthy
\* sub-sequence in input order with the matching maxFailures, or the error
ReturnedAsAlone(g) ==
    LET call == AloneCall(g)
        h == HealthyCount(call)
        need == IF cfg.strategy = "default" THEN Majority(call) ELSE 1
    IN  IF h < need
        THEN /\ gor[g].out.err # Nil
             /\ gor[g].out.healthy = <<>>
             /\ gor[g].out.maxFailures = 0
        ELSE /\ gor[g].out.err = Nil
             /\ gor[g].out.healthy = HealthySub(call)
             /\ gor[g].out.maxFailures = h - need

AllHealthyFor(g) ==
    \A k \in 1..Len(orig) : Healthy(AloneCall(g), orig[k])

----------------------------------------------------------------------------
(* Claim about the ring, checked under SpecRing *)

\* C10: InstancesCount takes the read lock, reads the membership size and
\* gives the lock back before returning: under every interleaving with
\* mutations made under the write lock the count it holds is the size of the
\* membership before or after a whole mutation (one of the sizes the
\* membership had between complete mutations during the call), never that
\* of a half-updated membership, and a thread outside the call holds no
\* ring lock.
C10_InstancesCount ==
    \A t \in Threads :
        /\ rd[t].pc \in {"read", "unlocked", "returned"} => rd[t].c \in rd[t].seen
        /\ rd[t].pc \in {"locked", "read"} => ~mtx.writer
        /\ rd[t].pc \in {"idle", "called", "unlocked", "returned"}
              => t \notin mtx.readers

C10_Witness ==
    \E t \in Threads :
        /\ rd[t].pc = "returned"
        /\ Cardinality(rd[t].seen) >= 2
        /\ rd[t].c \in rd[t].seen
        /\ wr.pc = "writing"
        /\ ingesters # wr.from
        /\ Cardinality(ingesters) \notin rd[t].seen

====
